---- MODULE Spec2Model ----
(***************************************************************************)
(* Model of scripts/locustfile.py: the two Locust user classes             *)
(* (HighloadUser, HighRPSUser), the metric payloads they synthesize and    *)
(* the way each task classifies the service's response.                    *)
(*                                                                         *)
(* Numbers: a raw draw (random.gauss, random.uniform, an anomaly pick) is  *)
(* an integer count of thousandths; a value after round(x, 2) is an        *)
(* integer count of hundredths.  A clock reading is an integer count of    *)
(* microseconds.                                                           *)
(***************************************************************************)
EXTENDS Integers, Sequences, FiniteSets, TLC

VARIABLES
    attrs,          \* per user object: the attribute names set on it
    device_id,      \* per user object: self.device_id (<<>> while unset)
    metrics_count,  \* per user object: self.metrics_count
    delivered,      \* history: samples sent in requests answered 200
    now,            \* the wall clock datetime.utcnow() reads
    last            \* the last task run: request, response, classification

vars == <<attrs, device_id, metrics_count, delivered, now, last>>

-----------------------------------------------------------------------------
(* Bounds of the model *)

MaxDelivered == 1   \* a session stops sending once it has delivered this much
MaxTicks == 2       \* the clock advances at most this many microseconds

(* Program constants *)

BatchSize == 10
CpuLo == 0
CpuHi == 100
RpsLo == 0
AnomalyPermille == 50
DeviceLo == 1
DeviceHi == 1000
UniCpuLo == 20
UniCpuHi == 80
UniRpsLo == 200
UniRpsHi == 800
StatusOK == 200
UsecPerSec == 1000000

StdUsers == {"u1", "u2"}        \* HighloadUser instances
HfUsers == {"h1"}               \* HighRPSUser instances
AllUsers == StdUsers \cup HfUsers

CpuAnomalies == <<95, 98, 99, 5, 2, 1>>
RpsAnomalies == <<1500, 2000, 50, 10>>

-----------------------------------------------------------------------------
(* Arithmetic of the payload *)

Max(a, b) == IF a >= b THEN a ELSE b
Min(a, b) == IF a <= b THEN a ELSE b

\* an integer of the source, as thousandths
Units(n) == n * 1000

ClampCpuNoUpper(cpu) == Max(Units(CpuLo), cpu)
\* max(0, min(100, cpu))
ClampCpu(cpu) == Max(Units(CpuLo), Min(Units(CpuHi), cpu))

\* max(0, rps)
ClampRps(rps) == Max(Units(RpsLo), rps)

\* round(x, 2): thousandths to hundredths, ties to the even neighbour
Round2(x) ==
    LET q == x \div 10
        r == x % 10
    IN  IF r < 5 THEN q
        ELSE IF r > 5 THEN q + 1
        ELSE IF q % 2 = 0 THEN q ELSE q + 1

\* random.random() < 0.05
IsAnomaly(roll) == roll < AnomalyPermille

-----------------------------------------------------------------------------
(* Timestamps *)

\* datetime.isoformat(): the fraction is printed only when it is not zero
IsoFormat(t) ==
    IF t % UsecPerSec = 0
    THEN <<t \div UsecPerSec>>
    ELSE <<t \div UsecPerSec, t % UsecPerSec>>

\* datetime.utcnow().isoformat() + "Z"
Timestamp(t) == IsoFormat(t) \o <<"Z">>

\* the instant a timestamp names
ParseTimestamp(ts) ==
    IF Len(ts) = 2 THEN ts[1] * UsecPerSec ELSE ts[1] * UsecPerSec + ts[2]

ClockStart == UsecPerSec - 1
ClockMax == ClockStart + MaxTicks
\* how far the clock may advance before its next reading
Ticks(steps) == {d \in steps : now + d <= ClockMax}

-----------------------------------------------------------------------------
(* Explicit classifications and their reasons *)

Success == [kind |-> "success", reason |-> <<>>]
Failure(reason) == [kind |-> "failure", reason |-> reason]

\* f"Status code: {response.status_code}"
StatusReason(status) == <<"Status code: ", ToString(status)>>
Unhealthy == <<"Service unhealthy">>

DeviceNameZeroBased(k) == <<"device-", k - 1>>
\* f"device-{k}"
DeviceName(k) == <<"device-", k>>

-----------------------------------------------------------------------------
(* Response bodies of the service: text that is not JSON, a JSON value     *)
(* that is not an object, or a JSON object given as its key/value pairs    *)

NotJson == [kind |-> "text", obj |-> <<>>]
JsonArray == [kind |-> "array", obj |-> <<>>]
JsonObject(pairs) == [kind |-> "object", obj |-> pairs]

Bodies ==
    { NotJson, JsonArray,
      JsonObject(<<>>),
      JsonObject(<< <<"status", "healthy">> >>),
      JsonObject(<< <<"status", "degraded">> >>) }

\* dict.get(key): the value of the key, None when the key is absent
DictGet(pairs, key) ==
    IF \E i \in 1..Len(pairs) : pairs[i][1] = key
    THEN pairs[CHOOSE i \in 1..Len(pairs) : pairs[i][1] = key][2]
    ELSE "None"

-----------------------------------------------------------------------------
(* Metric synthesis *)

\* send_metric, lines 28-37 and the rounding of lines 41-42: the clamped
\* Gaussian draws, replaced by a pick from each anomaly list on a roll < 0.05
SynthesizeOne(cpu_raw, rps_raw, roll, cpu_idx, rps_idx) ==
    LET cpu0 == ClampCpu(cpu_raw)
        rps0 == ClampRps(rps_raw)
        cpu == IF IsAnomaly(roll) THEN Units(CpuAnomalies[cpu_idx]) ELSE cpu0
        rps == IF IsAnomaly(roll) THEN Units(RpsAnomalies[rps_idx]) ELSE rps0
    IN  [cpu |-> Round2(cpu), rps |-> Round2(rps)]

\* send_batch, lines 62-65 and the rounding of lines 69-70: the clamped
\* Gaussian draws; no roll is made
SynthesizeElement(cpu_raw, rps_raw) ==
    [cpu |-> Round2(ClampCpu(cpu_raw)), rps |-> Round2(ClampRps(rps_raw))]

\* rapid_metrics, lines 117-118
SynthesizeRapid(cpu_uni, rps_uni) ==
    [cpu |-> Round2(cpu_uni), rps |-> Round2(rps_uni)]

\* the dict of lines 39-44 and 67-72
Metric(t, v, dev) ==
    [timestamp |-> Timestamp(t), cpu |-> v.cpu, rps |-> v.rps, device_id |-> dev]

RapidMetricWithDevice(t, v) == Metric(t, v, DeviceName(DeviceLo))
\* the dict of lines 115-119: no device_id key
RapidMetric(t, v) ==
    [timestamp |-> Timestamp(t), cpu |-> v.cpu, rps |-> v.rps]

PrependMetric(metrics, m) == <<m>> \o metrics
\* metrics.append(...)
AppendMetric(metrics, m) == Append(metrics, m)

\* the loop of lines 60-72: draw[i] and read[i] are the Gaussian draws and
\* the clock reading of iteration i
RECURSIVE BuildBatch(_, _, _, _, _)
BuildBatch(i, metrics, draw, read, dev) ==
    IF i > BatchSize THEN metrics
    ELSE BuildBatch(i + 1,
                    AppendMetric(metrics,
                        Metric(read[i],
                               SynthesizeElement(draw[i].cpu_raw, draw[i].rps_raw),
                               dev)),
                    draw, read, dev)

-----------------------------------------------------------------------------
(* Classification of a response *)

StatusOutcomeAlwaysSuccess(status) == <<Success>>
\* the if/else of lines 51-55, 79-82 and 88-91
StatusOutcome(status) ==
    IF status = StatusOK THEN <<Success>> ELSE <<Failure(StatusReason(status))>>

HealthOutcomeStatusOnly(status, resp) ==
    [calls |-> StatusOutcome(status), raised |-> "none"]
\* the body of health_check, lines 97-104: response.json() raises on a body
\* that is not JSON, data.get raises on a JSON value that is not an object
HealthOutcome(status, resp) ==
    IF status = StatusOK
    THEN IF resp.kind = "text"
         THEN [calls |-> <<>>, raised |-> "JSONDecodeError"]
         ELSE IF resp.kind # "object"
         THEN [calls |-> <<>>, raised |-> "AttributeError"]
         ELSE IF DictGet(resp.obj, "status") = "healthy"
         THEN [calls |-> <<Success>>, raised |-> "none"]
         ELSE [calls |-> <<Failure(Unhealthy)>>, raised |-> "none"]
    ELSE [calls |-> StatusOutcome(status), raised |-> "none"]

\* self.metrics_count += 1 under status 200, lines 51-52
CountAfter(count, status) ==
    IF status = StatusOK THEN count + 1 ELSE count

-----------------------------------------------------------------------------
(* The task runs *)

Unread == [kind |-> "unread", obj |-> <<>>]

NoTask ==
    [user |-> "none", action |-> "none", method |-> "none", path |-> "none",
     requests |-> 0, samples |-> <<>>, status |-> 0, resp |-> Unread,
     calls |-> <<>>, raised |-> "none", trials |-> 0, count_before |-> 0]

Init ==
    /\ attrs = [u \in AllUsers |-> {}]
    /\ device_id = [u \in AllUsers |-> <<>>]
    /\ metrics_count = [u \in AllUsers |-> 0]
    /\ delivered = [u \in AllUsers |-> 0]
    /\ now = ClockStart
    /\ last = NoTask

Started(u) == {"device_id", "metrics_count"} \subseteq attrs[u]

Delivered(u, n, status) ==
    [delivered EXCEPT ![u] = IF status = StatusOK THEN @ + n ELSE @]

\* HighloadUser.on_start
OnStartWith(u, I) ==
    /\ attrs[u] = {}
    /\ \E k \in I.device :
          device_id' = [device_id EXCEPT ![u] = DeviceName(k)]
    /\ metrics_count' = [metrics_count EXCEPT ![u] = 0]
    /\ attrs' = [attrs EXCEPT ![u] = {"device_id", "metrics_count"}]
    /\ UNCHANGED <<delivered, now, last>>

\* HighloadUser.send_metric
SendMetricWith(u, I) ==
    /\ Started(u)
    /\ delivered[u] < MaxDelivered
    /\ \E cpu_raw \in I.cpu_raw, rps_raw \in I.rps_raw, roll \in I.roll,
          cpu_idx \in I.cpu_idx, rps_idx \in I.rps_idx,
          d \in Ticks(I.tick), status \in I.status :
          LET t == now + d
              metric == Metric(t, SynthesizeOne(cpu_raw, rps_raw, roll,
                                                cpu_idx, rps_idx),
                               device_id[u])
          IN  /\ now' = t
              /\ metrics_count' =
                    [metrics_count EXCEPT ![u] = CountAfter(@, status)]
              /\ delivered' = Delivered(u, 1, status)
              /\ last' = [user |-> u, action |-> "send_metric",
                          method |-> "POST", path |-> "/metrics",
                          requests |-> 1, samples |-> <<metric>>,
                          status |-> status, resp |-> Unread,
                          calls |-> StatusOutcome(status), raised |-> "none",
                          trials |-> 1, count_before |-> metrics_count[u]]
    /\ UNCHANGED <<attrs, device_id>>

\* HighloadUser.send_batch: the clock may advance once, before the reading
\* of iteration seam, and the draws change from one pair to another there
SendBatchWith(u, I) ==
    /\ Started(u)
    /\ delivered[u] < MaxDelivered
    /\ \E c1 \in I.cpu_raw, r1 \in I.rps_raw, c2 \in I.cpu_raw, r2 \in I.rps_raw,
          seam \in I.seam, d \in Ticks(I.tick), status \in I.status :
          LET draw == [i \in 1..BatchSize |->
                          IF i < seam THEN [cpu_raw |-> c1, rps_raw |-> r1]
                                      ELSE [cpu_raw |-> c2, rps_raw |-> r2]]
              read == [i \in 1..BatchSize |-> IF i < seam THEN now ELSE now + d]
              metrics == BuildBatch(1, <<>>, draw, read, device_id[u])
          IN  /\ now' = now + d
              /\ delivered' = Delivered(u, Len(metrics), status)
              /\ last' = [user |-> u, action |-> "send_batch",
                          method |-> "POST", path |-> "/metrics/batch",
                          requests |-> 1, samples |-> metrics,
                          status |-> status, resp |-> Unread,
                          calls |-> StatusOutcome(status), raised |-> "none",
                          trials |-> 0, count_before |-> metrics_count[u]]
    /\ UNCHANGED <<attrs, device_id, metrics_count>>

\* HighloadUser.get_analysis
GetAnalysisWith(u, I) ==
    /\ Started(u)
    /\ \E status \in I.status :
          last' = [user |-> u, action |-> "get_analysis",
                   method |-> "GET", path |-> "/analyze",
                   requests |-> 1, samples |-> <<>>,
                   status |-> status, resp |-> Unread,
                   calls |-> StatusOutcome(status), raised |-> "none",
                   trials |-> 0, count_before |-> metrics_count[u]]
    /\ UNCHANGED <<attrs, device_id, metrics_count, delivered, now>>

\* HighloadUser.health_check
HealthCheckWith(u, I) ==
    /\ Started(u)
    /\ \E status \in I.status, resp \in I.resp :
          LET out == HealthOutcome(status, resp)
          IN  last' = [user |-> u, action |-> "health_check",
                       method |-> "GET", path |-> "/health",
                       requests |-> 1, samples |-> <<>>,
                       status |-> status, resp |-> resp,
                       calls |-> out.calls, raised |-> out.raised,
                       trials |-> 0, count_before |-> metrics_count[u]]
    /\ UNCHANGED <<attrs, device_id, metrics_count, delivered, now>>

\* HighRPSUser.rapid_metrics: the response is not looked at
RapidMetricsWith(h, I) ==
    /\ \E cpu_uni \in I.cpu_uni, rps_uni \in I.rps_uni,
          d \in Ticks(I.tick), status \in I.status :
          LET t == now + d
          IN  /\ now' = t
              /\ last' = [user |-> h, action |-> "rapid_metrics",
                          method |-> "POST", path |-> "/metrics",
                          requests |-> 1,
                          samples |-> <<RapidMetric(t, SynthesizeRapid(cpu_uni, rps_uni))>>,
                          status |-> status, resp |-> Unread,
                          calls |-> <<>>, raised |-> "none",
                          trials |-> 0, count_before |-> metrics_count[h]]
    /\ UNCHANGED <<attrs, device_id, metrics_count, delivered>>

-----------------------------------------------------------------------------
(* Inputs: what the random source, the clock and the service may return *)

Statuses == {200, 500, 503}

\* the sessions under every response of the service
SessionInputs ==
    [device |-> {DeviceLo, DeviceHi},
     cpu_raw |-> {130000}, rps_raw |-> {-20000},
     roll |-> {AnomalyPermille - 1, AnomalyPermille},
     cpu_idx |-> {1}, rps_idx |-> {Len(RpsAnomalies)},
     seam |-> {1, BatchSize}, tick |-> {0, 1},
     cpu_uni |-> {Units(UniCpuLo), Units(UniCpuHi)},
     rps_uni |-> {Units(UniRpsLo), Units(UniRpsHi)},
     status |-> Statuses, resp |-> Bodies]

\* the synthesis over every kind of draw, under a failing service
SynthInputs ==
    [device |-> {DeviceHi},
     cpu_raw |-> {-7000, 49995, 130000},
     rps_raw |-> {-20000, 500005},
     roll |-> {AnomalyPermille - 1, AnomalyPermille},
     cpu_idx |-> 1..Len(CpuAnomalies), rps_idx |-> 1..Len(RpsAnomalies),
     seam |-> {1, 5, BatchSize}, tick |-> {0, 1},
     cpu_uni |-> {Units(UniCpuLo), 49995, Units(UniCpuHi)},
     rps_uni |-> {Units(UniRpsLo), 500005, Units(UniRpsHi)},
     status |-> {500}, resp |-> Bodies]

OnStart(u) == OnStartWith(u, SessionInputs)
SendMetric(u) == SendMetricWith(u, SessionInputs)
SendBatch(u) == SendBatchWith(u, SessionInputs)
GetAnalysis(u) == GetAnalysisWith(u, SessionInputs)
HealthCheck(u) == HealthCheckWith(u, SessionInputs)
RapidMetrics(h) == RapidMetricsWith(h, SessionInputs)

Next ==
    \/ \E u \in StdUsers :
          \/ OnStart(u)
          \/ SendMetric(u)
          \/ SendBatch(u)
          \/ GetAnalysis(u)
          \/ HealthCheck(u)
    \/ \E h \in HfUsers : RapidMetrics(h)

Spec == Init /\ [][Next]_vars

SynthOnStart == OnStartWith("u1", SynthInputs)
SynthSendMetric == SendMetricWith("u1", SynthInputs)
SynthSendBatch == SendBatchWith("u1", SynthInputs)
SynthRapidMetrics == RapidMetricsWith("h1", SynthInputs)

NextSynth ==
    \/ SynthOnStart
    \/ SynthSendMetric
    \/ SynthSendBatch
    \/ SynthRapidMetrics

SpecSynth == Init /\ [][NextSynth]_vars

-----------------------------------------------------------------------------
(* Vocabulary of the properties *)

StdActions == {"send_metric", "send_batch", "get_analysis", "health_check"}
Hundredths(n) == n * 100
Contains(reason, word) == \E i \in 1..Len(reason) : reason[i] = word
Reported(kind) == \E i \in 1..Len(last.calls) : last.calls[i].kind = kind
FailedCiting(status) ==
    /\ Len(last.calls) = 1
    /\ last.calls[1].kind = "failure"
    /\ Contains(last.calls[1].reason, ToString(status))
SaysHealthy(resp) ==
    /\ resp.kind = "object"
    /\ \E i \in 1..Len(resp.obj) : resp.obj[i] = <<"status", "healthy">>

-----------------------------------------------------------------------------
(* C1: every sample of a request body has 0 <= cpu <= 100 and rps >= 0,    *)
(* whatever the raw draws were and whether or not the anomaly branch ran   *)
C1_SampleRanges ==
    \A i \in 1..Len(last.samples) :
        /\ Hundredths(0) <= last.samples[i].cpu
        /\ last.samples[i].cpu <= Hundredths(100)
        /\ last.samples[i].rps >= 0

\* a batch holding a draw above 100 and a negative draw, both clamped
C1_Witness ==
    /\ last.action = "send_batch"
    /\ last.samples[1].cpu = Hundredths(100)
    /\ last.samples[BatchSize].cpu = 0
    /\ last.samples[BatchSize].rps = 0

C3_StatusClassification ==
    last.action \in {"send_metric", "send_batch", "get_analysis"} =>
        IF last.status = 200
        THEN last.calls = <<Success>>
        ELSE FailedCiting(last.status)

\* a batch answered 500, reported failed with a reason holding "500"
C3_Witness ==
    /\ last.action = "send_batch"
    /\ last.status = 500
    /\ last.calls = <<Failure(<<"Status code: ", "500">>)>>

(* C4: every element of a batch goes through the single-sample algorithm:  *)
(* it rolls its own anomaly chance, and whatever values a single sample    *)
(* can carry a batch element can carry too                                 *)
C4_BatchRollsPerElement ==
    last.action = "send_batch" =>
        /\ last.trials = Len(last.samples)
        /\ \A ci \in 1..Len(CpuAnomalies), ri \in 1..Len(RpsAnomalies) :
              \E c \in SynthInputs.cpu_raw, r \in SynthInputs.rps_raw :
                  SynthesizeElement(c, r) =
                      SynthesizeOne(c, r, AnomalyPermille - 1, ci, ri)

(* C5: a session's metrics_count is the number of samples it sent in       *)
(* requests answered 200                                                   *)
C5_CountIsDelivered ==
    \A u \in StdUsers : metrics_count[u] = delivered[u]

(* C6: every turn of a standard session ends with an outcome reported and  *)
(* nothing raised, whatever the status and the body of the response        *)
C6_TurnNeverRaises ==
    last.action \in StdActions =>
        /\ last.raised = "none"
        /\ Len(last.calls) >= 1

(* C7: rapid_metrics posts one sample to /metrics with cpu in [20, 80],    *)
(* rps in [200, 800] and no device_id, reads nothing of the response,      *)
(* reports no classification and leaves its user without any counter       *)
C7_RapidFireAndForget ==
    /\ \A h \in HfUsers : attrs[h] = {} /\ metrics_count[h] = 0
    /\ last.action = "rapid_metrics" =>
          /\ last.user \in HfUsers
          /\ last.method = "POST" /\ last.path = "/metrics"
          /\ last.requests = 1
          /\ Len(last.samples) = 1
          /\ DOMAIN last.samples[1] = {"timestamp", "cpu", "rps"}
          /\ Hundredths(20) <= last.samples[1].cpu
          /\ last.samples[1].cpu <= Hundredths(80)
          /\ Hundredths(200) <= last.samples[1].rps
          /\ last.samples[1].rps <= Hundredths(800)
          /\ last.resp = Unread
          /\ last.calls = <<>>

\* a rapid send answered 500: nothing is reported
C7_Witness ==
    /\ last.action = "rapid_metrics"
    /\ last.status = 500
    /\ last.samples[1].cpu = Hundredths(80)
    /\ last.calls = <<>>

(* C8: a started session's device_id is device-<k> with k in 1..1000, no   *)
(* step changes it once it is set, and every sample of send_metric and     *)
(* send_batch carries the device_id of the session that sent it            *)
C8_DeviceIdOfSession ==
    /\ \A u \in StdUsers :
          IF Started(u)
          THEN /\ Len(device_id[u]) = 2
               /\ device_id[u][1] = "device-"
               /\ device_id[u][2] \in 1..1000
          ELSE device_id[u] = <<>>
    /\ last.action \in {"send_metric", "send_batch"} =>
          \A i \in 1..Len(last.samples) :
              last.samples[i].device_id = device_id[last.user]

C8_DeviceIdStable ==
    /\ []C8_DeviceIdOfSession
    /\ [][\A u \in StdUsers : Started(u) => device_id'[u] = device_id[u]]_vars

\* two sessions holding the same device_id, one of them having sent a batch
C8_Witness ==
    /\ Started("u1") /\ Started("u2")
    /\ device_id["u1"] = device_id["u2"]
    /\ last.action = "send_batch"
    /\ last.samples[BatchSize].device_id = <<"device-", 1000>>

(* C9: a batch request goes to /metrics/batch with exactly 10 samples whose *)
(* timestamps, read as instants, never decrease along the sequence         *)
C9_BatchOfTenOrdered ==
    last.action = "send_batch" =>
        /\ last.path = "/metrics/batch"
        /\ Len(last.samples) = 10
        /\ \A i \in 1..Len(last.samples) : \A j \in i..Len(last.samples) :
              ParseTimestamp(last.samples[i].timestamp)
                  <= ParseTimestamp(last.samples[j].timestamp)

\* a batch during which the clock passed the full second
C9_Witness ==
    /\ last.action = "send_batch"
    /\ last.samples[1].timestamp = <<0, 999999, "Z">>
    /\ last.samples[10].timestamp = <<1, "Z">>

(* C10: every turn of a standard session issues one request and, once the  *)
(* response is decoded, reports exactly one outcome, success or failure;   *)
(* metrics_count moves by 0 or +1 in the turn                              *)
C10_OneOutcomePerTurn ==
    last.action \in StdActions =>
        /\ last.requests = 1
        /\ metrics_count[last.user] - last.count_before \in {0, 1}
        /\ last.raised # "JSONDecodeError" =>
              /\ Len(last.calls) = 1
              /\ last.calls[1].kind \in {"success", "failure"}

====
